---- MODULE Spec2Model ----
(***************************************************************************)
(* Model of src/faiss_service.py: the module-level index state             *)
(* (faiss_index, product_mapping), build_faiss_index, and the FastAPI      *)
(* handlers startup_event, search_product and rebuild_index.               *)
(*                                                                         *)
(* Scheduling.  Every handler is an `async def` run by one asyncio event   *)
(* loop.  A coroutine keeps the loop until it awaits.  build_faiss_index   *)
(* is a plain synchronous function, so a rebuild keeps the loop from its   *)
(* first line to its return; search_product awaits once (image.read(),     *)
(* line 206), between its not-ready check and the rest of its body.        *)
(*                                                                         *)
(* Embeddings are two-component integer vectors.  A normalised embedding   *)
(* is a fixed-point unit vector with Scale as the unit, so the inner       *)
(* product of two normalised embeddings lies in 0 .. Scale*Scale.          *)
(***************************************************************************)
EXTENDS Integers, Sequences, FiniteSets, TLC

\* ------------------------------------------------------------------ bounds

\* Longest catalog (number of product entries) a build reads.
MaxCatalog == 2

\* Largest k a search request carries (k ranges over 1 .. MaxK).
MaxK == 2

\* ------------------------------------------------------- program constants

\* Fixed-point unit of a normalised embedding component.
Scale == 5

\* product.get('price') of an entry without a price (Python None).
PriceNone == 0 - 1

ImageExts == {".jpg", ".jpeg", ".png"}

\* ----------------------------------------------------------------- helpers

RECURSIVE Isqrt(_, _)
\* Largest r >= lo with r*r <= n (integer square root by upward scan).
Isqrt(n, lo) == IF (lo + 1) * (lo + 1) > n THEN lo ELSE Isqrt(n, lo + 1)

\* np.linalg.norm of a two-component vector.
Norm(v) == Isqrt(v[1] * v[1] + v[2] * v[2], 0)

\* The L2 normalisation at the end of extract_embedding: divide by the norm
\* when it is positive, leave the zero vector alone.
Normalize(v) ==
    LET norm == Norm(v)
    IN  IF norm > 0
        THEN << (v[1] * Scale) \div norm, (v[2] * Scale) \div norm >>
        ELSE v

\* Inner product, as IndexFlatIP scores a stored vector against the query.
InnerProduct(a, b) == a[1] * b[1] + a[2] * b[2]

\* str.replace(' ', '_').lower() on the product names the catalogs use.
DerivedId(name) ==
    CASE name = "Mug" -> "mug"
      [] name = "Tea Cup" -> "tea_cup"
      [] OTHER -> name

\* -------------------------------------------------------------- environment

\* A file of a reference directory: its name, the extension the name ends
\* with, whether Image.open / extract_embedding succeed on it, and the raw
\* feature vector the embedding model yields for it.
File(name, ext, ok, raw) == [name |-> name, ext |-> ext, ok |-> ok, raw |-> raw]

\* A catalog entry as json.load returns it, with the state of its reference
\* directory on disk.
Entry(has_id, id, has_name, name, price, dir, files) ==
    [has_id |-> has_id, id |-> id, has_name |-> has_name, name |-> name,
     price |-> price, dir |-> dir, files |-> files]

MugTwo == Entry(TRUE, "mug", TRUE, "Mug", 999, TRUE,
                << File("A.jpg", ".jpg", TRUE, <<3, 4>>),
                   File("A2.png", ".png", TRUE, <<6, 8>>) >>)

CupNoDir == Entry(FALSE, "", TRUE, "Tea Cup", PriceNone, FALSE, << >>)

CupBadFile == Entry(FALSE, "", TRUE, "Tea Cup", PriceNone, TRUE,
                    << File("bad.jpg", ".jpg", FALSE, <<0, 0>>),
                       File("notes.txt", ".txt", TRUE, <<0, 0>>),
                       File("B.jpg", ".jpg", TRUE, <<4, 3>>) >>)

PenNoName == Entry(TRUE, "pen", FALSE, "", 150, TRUE,
                   << File("C.jpg", ".jpg", TRUE, <<5, 0>>) >>)

Entries == {MugTwo, CupNoDir, CupBadFile, PenNoName}

\* The product a catalog entry stands for.
EntryKey(e) == IF e.has_id THEN e.id ELSE e.name

RECURSIVE SeqsUpTo(_, _)
\* All sequences over S of length at most n.
SeqsUpTo(S, n) ==
    IF n = 0 THEN {<< >>}
    ELSE LET shorter == SeqsUpTo(S, n - 1)
         IN  shorter \cup {Append(s, e) : s \in shorter, e \in S}

\* The catalogs: at most MaxCatalog entries, no product listed twice (an
\* entry carries the state of its product's directory on disk, and a
\* directory has one state at a time).
Catalogs ==
    {c \in SeqsUpTo(Entries, MaxCatalog) :
        \A i, j \in DOMAIN c : i # j => EntryKey(c[i]) # EntryKey(c[j])}

\* What a build can find at CATALOG_PATH: no file, a file json.load rejects,
\* or a list of entries.
Worlds ==
    {[file |-> "missing", catalog |-> << >>],
     [file |-> "bad_json", catalog |-> << >>]}
    \cup {[file |-> "ok", catalog |-> c] : c \in Catalogs}

\* An uploaded query image: whether it decodes, and its raw feature vector.
Queries ==
    {[ok |-> TRUE, raw |-> <<3, 4>>],
     [ok |-> TRUE, raw |-> <<8, 6>>],
     [ok |-> FALSE, raw |-> <<0, 0>>]}

\* ------------------------------------------------------------------- search

\* faiss_index before any build has assigned it (Python None), and an
\* IndexFlatIP holding the given rows.  A row is the stored embedding; src
\* records which reference image it was extracted from (the index itself
\* stores only the embedding).
None == [set |-> FALSE, rows |-> << >>]

Index(rows) == [set |-> TRUE, rows |-> rows]

\* faiss_index.ntotal
Ntotal(index) == Len(index.rows)

\* The stored row the query scores best against among the positions in S:
\* highest inner product, the earlier position on a tie.
BestOf(rows, q, S) ==
    CHOOSE i \in S :
        \A j \in S :
            \/ InnerProduct(q, rows[i].emb) > InnerProduct(q, rows[j].emb)
            \/ /\ InnerProduct(q, rows[i].emb) = InnerProduct(q, rows[j].emb)
               /\ i <= j

RECURSIVE TopN(_, _, _, _)
\* The n best positions of S, best first, each with its score.
TopN(rows, q, S, n) ==
    IF n = 0 \/ S = {} THEN << >>
    ELSE LET b == BestOf(rows, q, S)
         IN  << [dist |-> InnerProduct(q, rows[b].emb), idx |-> b] >>
             \o TopN(rows, q, S \ {b}, n - 1)

\* faiss_index.search(query_embedding, n): the n nearest rows, best first.
\* Positions are 1-based here, 0-based in the code.
FaissSearch(index, q, n) == TopN(index.rows, q, 1 .. Ntotal(index), n)

\* min(k, faiss_index.ntotal)
Min(a, b) == IF a < b THEN a ELSE b

\* One entry of the "matches" list.
Match(dist, info) ==
    [product_id |-> info.product_id, product_name |-> info.product_name,
     similarity |-> dist, ref_file |-> info.ref_file, price |-> info.price]

RECURSIVE CollectNoDedup(_, _, _, _, _, _)
\* Collect without the seen_products test: every in-range match is emitted.
CollectNoDedup(raw, i, mapping, k, results, seen) ==
    IF i > Len(raw) THEN results
    ELSE LET idx == raw[i].idx
         IN  IF idx < 1 \/ idx > Len(mapping)
             THEN CollectNoDedup(raw, i + 1, mapping, k, results, seen)
             ELSE LET results2 ==
                          Append(results, Match(raw[i].dist, mapping[idx]))
                  IN  IF Len(results2) >= k
                      THEN results2
                      ELSE CollectNoDedup(raw, i + 1, mapping, k, results2,
                                          seen)

RECURSIVE CollectKeepLast(_, _, _, _, _, _)
\* Collect if a later match of an emitted product overwrote its entry (as a
\* dict keyed by product_id would) instead of being skipped.
CollectKeepLast(raw, i, mapping, k, results, seen) ==
    IF i > Len(raw) THEN results
    ELSE LET dist == raw[i].dist
             idx == raw[i].idx
         IN  IF idx < 1 \/ idx > Len(mapping)
             THEN CollectKeepLast(raw, i + 1, mapping, k, results, seen)
             ELSE LET info == mapping[idx]
                      fresh == info.product_id \notin seen
                      results2 ==
                          IF fresh
                          THEN Append(results, Match(dist, info))
                          ELSE [n \in DOMAIN results |->
                                   IF results[n].product_id = info.product_id
                                   THEN Match(dist, info)
                                   ELSE results[n]]
                      seen2 == seen \cup {info.product_id}
                  IN  IF Len(results2) >= k /\ i >= Len(raw)
                      THEN results2
                      ELSE CollectKeepLast(raw, i + 1, mapping, k, results2,
                                           seen2)

RECURSIVE Collect(_, _, _, _, _, _)
\* The result loop of search_product from raw match i on: skip a position
\* outside product_mapping, emit the first match of each product, stop once
\* k results are collected.
Collect(raw, i, mapping, k, results, seen) ==
    IF i > Len(raw) THEN results
    ELSE LET dist == raw[i].dist
             idx == raw[i].idx
         IN  IF idx < 1 \/ idx > Len(mapping)
             THEN Collect(raw, i + 1, mapping, k, results, seen)
             ELSE LET info == mapping[idx]
                      fresh == info.product_id \notin seen
                      results2 == IF fresh
                                  THEN Append(results, Match(dist, info))
                                  ELSE results
                      seen2 == IF fresh
                               THEN seen \cup {info.product_id}
                               ELSE seen
                  IN  IF Len(results2) >= k
                      THEN results2
                      ELSE Collect(raw, i + 1, mapping, k, results2, seen2)

\* The "matches" a search computes from an index, a metadata list, a decoded
\* query image and k.
Matches(index, mapping, raw, k) ==
    LET q == Normalize(raw)
        found == FaissSearch(index, q, Min(k, Ntotal(index)))
    IN  Collect(found, 1, mapping, k, << >>, {})

\* -------------------------------------------------------------------- build

\* product_id of a catalog entry: product.get('id', derived-from-name).
ProductId(product) == IF product.has_id THEN product.id ELSE DerivedId(product.name)

\* The files of a reference directory the build looks at.
RefFiles(product) == SelectSeq(product.files, LAMBDA f : f.ext \in ImageExts)

\* The metadata entry appended for one reference image.
MappingEntry(product, f) ==
    [product_id |-> ProductId(product), product_name |-> product.name,
     ref_file |-> f.name, price |-> product.price]

\* The embedding appended for one reference image.
Row(product, f) ==
    [emb |-> Normalize(f.raw), src |-> << ProductId(product), f.name >>]

RECURSIVE UntilFailure(_)
\* The files of a listing up to the first one that fails to load.
UntilFailure(files) ==
    IF files = << >> \/ ~Head(files).ok THEN << >>
    ELSE << Head(files) >> \o UntilFailure(Tail(files))

\* GoodFiles if a failing image ended the inner loop instead of being skipped.
GoodFilesUntilFailure(product) == UntilFailure(RefFiles(product))

\* The images of a product the try block succeeds on, in listing order.
GoodFiles(product) == SelectSeq(RefFiles(product), LAMBDA f : f.ok)

\* What the inner loop appends to embeddings for one product.
NewRows(product) ==
    [i \in 1 .. Len(GoodFiles(product)) |-> Row(product, GoodFiles(product)[i])]

\* What the inner loop appends to product_mapping for one product.
NewMapping(product) ==
    [i \in 1 .. Len(GoodFiles(product)) |->
        MappingEntry(product, GoodFiles(product)[i])]

\* -------------------------------------------------------------------- state

\* The POST /index/rebuild requests that can be in flight together, and the
\* callers of build_faiss_index: startup_event and each such request.
Rebuilders == {"r1", "r2"}

Callers == {"startup"} \cup Rebuilders

VARIABLES
    faiss_index,      \* the global faiss_index: None or an Index
    product_mapping,  \* the global product_mapping: metadata by index position
    phase,            \* "boot" before startup_event, then "serving"; "dead"
                      \*   when startup_event raised and the server exited
    bpc,              \* per caller, where its build_faiss_index call is:
                      \*   "idle", "queued" (request waiting for the event
                      \*   loop), "loop" (inside the catalog loop) or
                      \*   "returned" (the caller is about to return)
    catalog,          \* per caller, the local catalog of its build
    bi,               \* per caller, the position of its catalog loop
    embeddings,       \* per caller, the local embeddings list of its build
    pre,              \* history: per caller, the index and metadata when its
                      \*   build was entered
    outcome,          \* history: per caller, how its build ended
    rebuildResp,      \* per caller, the response rebuild_index is returning
    version,          \* history: the index and metadata of the last build
                      \*   that assigned faiss_index
    spc,              \* search_product: "idle", "awaiting" (suspended in
                      \*   image.read()) or "done" (about to return or raise)
    sk,               \* the search's k
    sq,               \* the uploaded image image.read() returned
    sentry,           \* history: index, metadata and version when the search
                      \*   was entered
    sresp,            \* the response of the search
    hresp,            \* the response health_check is returning
    last,             \* history: what the most recent build found at
                      \*   CATALOG_PATH
    prev              \* history: per caller, what the build before its own
                      \*   found at CATALOG_PATH

vars == << faiss_index, product_mapping, phase, bpc, catalog, bi, embeddings,
           pre, outcome, rebuildResp, version, spc, sk, sq, sentry, sresp,
           hresp, last, prev >>

buildLocals == << catalog, bi, embeddings >>

searchVars == << spc, sk, sq, sentry, sresp >>

healthVars == << hresp >>

worldHist == << last, prev >>

\* No build has read CATALOG_PATH yet.
NoWorld == [file |-> "none", catalog |-> << >>]

\* The history of what the builds read is not kept.
Untracked == [file |-> "untracked", catalog |-> << >>]

NoResp == [status |-> 0]

NoSnapshot == [index |-> None, mapping |-> << >>]

NoEntry == [index |-> None, mapping |-> << >>, version |-> NoSnapshot]

NoQuery == [ok |-> FALSE, raw |-> <<0, 0>>]

InitProgram ==
    /\ faiss_index = None
    /\ product_mapping = << >>
    /\ phase = "boot"
    /\ bpc = [c \in Callers |-> "idle"]
    /\ catalog = [c \in Callers |-> << >>]
    /\ bi = [c \in Callers |-> 0]
    /\ embeddings = [c \in Callers |-> << >>]
    /\ pre = [c \in Callers |-> NoSnapshot]
    /\ outcome = [c \in Callers |-> "none"]
    /\ rebuildResp = [c \in Callers |-> NoResp]
    /\ version = NoSnapshot
    /\ spc = "idle"
    /\ sk = 0
    /\ sq = NoQuery
    /\ sentry = NoEntry
    /\ sresp = NoResp
    /\ hresp = NoResp
    /\ prev = [c \in Callers |-> NoWorld]

\* The program after construction; what the builds read is not recorded.
Init ==
    /\ InitProgram
    /\ last = Untracked

\* The program after construction; every build records what it read.
InitHist ==
    /\ InitProgram
    /\ last = NoWorld

\* History: build c reads w; prev[c] keeps what the build before it read.
Record(c, w) ==
    /\ last' = IF last = Untracked THEN Untracked ELSE w
    /\ prev' = [prev EXCEPT ![c] = last]

\* The callers whose build is between its first line and its caller's return.
Building == {c \in Callers : bpc[c] \in {"loop", "returned"}}

\* LoopFree if a build gave up the event loop between its steps (as it would
\* when run in a worker thread): a build in progress holds nothing.
LoopNotHeldByBuild == spc # "done" /\ hresp = NoResp

\* The event loop is free: no handler is between two of its awaits.  A build
\* never awaits, so it keeps the loop from its first line to the return of
\* its caller.
LoopFree == Building = {} /\ spc # "done" /\ hresp = NoResp

\* ------------------------------------------------------------------ rebuild

\* The ways build_faiss_index raises: json.load on the catalog file, and
\* product['name'] on an entry without a name.
Exceptions == {"json_error", "key_error"}

\* What rebuild_index returns after build_faiss_index ended with outcome oc
\* and left the index at idx: the success body, or the 500 of its except
\* clause when the build raised.
RebuildResponse(oc, idx) ==
    IF oc \in Exceptions
    THEN [status |-> 500]
    ELSE [status |-> 200, success |-> TRUE,
          index_size |-> IF idx.set THEN Ntotal(idx) ELSE 0]

\* build_faiss_index hands control back to its caller c with outcome oc, the
\* index being idx: rebuild_index forms its response; startup_event either
\* completes (the server starts serving) or propagates the exception (the
\* server exits).
Return(c, oc, idx) ==
    /\ bpc' = [bpc EXCEPT ![c] = "returned"]
    /\ outcome' = [outcome EXCEPT ![c] = oc]
    /\ rebuildResp' =
           [rebuildResp EXCEPT
               ![c] = IF c \in Rebuilders THEN RebuildResponse(oc, idx)
                      ELSE NoResp]
    /\ phase' = IF c = "startup"
                THEN (IF oc \in Exceptions THEN "dead" ELSE "serving")
                ELSE phase

\* Begin without the reset of product_mapping: the pass appends to the
\* metadata the last pass left.
BeginNoReset(c, w) ==
    /\ pre' = [pre EXCEPT
                  ![c] = [index |-> faiss_index, mapping |-> product_mapping]]
    /\ Record(c, w)
    /\ IF w.file = "missing"
       THEN /\ Return(c, "catalog_missing", faiss_index)
            /\ UNCHANGED << faiss_index, product_mapping, buildLocals >>
       ELSE IF w.file = "bad_json"
       THEN /\ Return(c, "json_error", faiss_index)
            /\ UNCHANGED << faiss_index, product_mapping, buildLocals >>
       ELSE /\ catalog' = [catalog EXCEPT ![c] = w.catalog]
            /\ embeddings' = [embeddings EXCEPT ![c] = << >>]
            /\ bi' = [bi EXCEPT ![c] = 1]
            /\ bpc' = [bpc EXCEPT ![c] = "loop"]
            /\ UNCHANGED << faiss_index, product_mapping, outcome,
                            rebuildResp, phase >>

\* Begin with faiss_index cleared along with product_mapping.
BeginClearIndex(c, w) ==
    /\ pre' = [pre EXCEPT
                  ![c] = [index |-> faiss_index, mapping |-> product_mapping]]
    /\ Record(c, w)
    /\ IF w.file = "missing"
       THEN /\ Return(c, "catalog_missing", faiss_index)
            /\ UNCHANGED << faiss_index, product_mapping, buildLocals >>
       ELSE IF w.file = "bad_json"
       THEN /\ Return(c, "json_error", faiss_index)
            /\ UNCHANGED << faiss_index, product_mapping, buildLocals >>
       ELSE /\ catalog' = [catalog EXCEPT ![c] = w.catalog]
            /\ embeddings' = [embeddings EXCEPT ![c] = << >>]
            /\ product_mapping' = << >>
            /\ faiss_index' = None
            /\ bi' = [bi EXCEPT ![c] = 1]
            /\ bpc' = [bpc EXCEPT ![c] = "loop"]
            /\ UNCHANGED << outcome, rebuildResp, phase >>

\* Begin with the reset of product_mapping moved ahead of the catalog checks.
BeginResetFirst(c, w) ==
    /\ pre' = [pre EXCEPT
                  ![c] = [index |-> faiss_index, mapping |-> product_mapping]]
    /\ Record(c, w)
    /\ product_mapping' = << >>
    /\ IF w.file = "missing"
       THEN /\ Return(c, "catalog_missing", faiss_index)
            /\ UNCHANGED << faiss_index, buildLocals >>
       ELSE IF w.file = "bad_json"
       THEN /\ Return(c, "json_error", faiss_index)
            /\ UNCHANGED << faiss_index, buildLocals >>
       ELSE /\ catalog' = [catalog EXCEPT ![c] = w.catalog]
            /\ embeddings' = [embeddings EXCEPT ![c] = << >>]
            /\ bi' = [bi EXCEPT ![c] = 1]
            /\ bpc' = [bpc EXCEPT ![c] = "loop"]
            /\ UNCHANGED << faiss_index, outcome, rebuildResp, phase >>

\* build_faiss_index from its entry to the start of the catalog loop, called
\* by c with w at CATALOG_PATH: return when the catalog file is missing,
\* raise when json.load rejects it, else reset product_mapping and the
\* local embeddings.
Begin(c, w) ==
    /\ pre' = [pre EXCEPT
                  ![c] = [index |-> faiss_index, mapping |-> product_mapping]]
    /\ Record(c, w)
    /\ IF w.file = "missing"
       THEN /\ Return(c, "catalog_missing", faiss_index)
            /\ UNCHANGED << faiss_index, product_mapping, buildLocals >>
       ELSE IF w.file = "bad_json"
       THEN /\ Return(c, "json_error", faiss_index)
            /\ UNCHANGED << faiss_index, product_mapping, buildLocals >>
       ELSE /\ catalog' = [catalog EXCEPT ![c] = w.catalog]
            /\ embeddings' = [embeddings EXCEPT ![c] = << >>]
            /\ product_mapping' = << >>
            /\ bi' = [bi EXCEPT ![c] = 1]
            /\ bpc' = [bpc EXCEPT ![c] = "loop"]
            /\ UNCHANGED << faiss_index, outcome, rebuildResp, phase >>

\* startup_event: the first build, before any request is served.
Startup(w) ==
    /\ phase = "boot"
    /\ bpc["startup"] = "idle"
    /\ Begin("startup", w)
    /\ UNCHANGED << version, searchVars, healthVars >>

\* A client posts /index/rebuild; the request waits for the event loop.
RequestRebuild(r) ==
    /\ phase = "serving"
    /\ bpc[r] = "idle"
    /\ bpc' = [bpc EXCEPT ![r] = "queued"]
    /\ UNCHANGED << faiss_index, product_mapping, phase, buildLocals, pre,
                    outcome, rebuildResp, version, searchVars, healthVars,
                    worldHist >>

\* rebuild_index starts running a waiting request.
RebuildStart(r, w) ==
    /\ phase = "serving"
    /\ LoopFree
    /\ bpc[r] = "queued"
    /\ Begin(r, w)
    /\ UNCHANGED << version, searchVars, healthVars >>

\* One iteration of `for product in catalog` in the build of c: raise
\* KeyError on an entry without 'name', skip a product whose reference
\* directory is missing, else append an embedding and a metadata entry per
\* image that loads.
BuildProduct(c) ==
    /\ bpc[c] = "loop"
    /\ bi[c] <= Len(catalog[c])
    /\ LET product == catalog[c][bi[c]]
       IN  IF ~product.has_name
           THEN /\ Return(c, "key_error", faiss_index)
                /\ UNCHANGED << product_mapping, buildLocals >>
           ELSE /\ bi' = [bi EXCEPT ![c] = bi[c] + 1]
                /\ IF ~product.dir
                   THEN UNCHANGED << embeddings, product_mapping >>
                   ELSE /\ embeddings' =
                               [embeddings EXCEPT
                                   ![c] = embeddings[c] \o NewRows(product)]
                        /\ product_mapping' =
                               product_mapping \o NewMapping(product)
                /\ UNCHANGED << catalog, bpc, outcome, rebuildResp, phase >>
    /\ UNCHANGED << faiss_index, pre, version, searchVars, healthVars,
                    worldHist >>

\* BuildFinish without the test for an empty embeddings list: whatever was
\* extracted is installed.
BuildFinishNoEmptyCheck(c) ==
    /\ bpc[c] = "loop"
    /\ bi[c] > Len(catalog[c])
    /\ faiss_index' = Index(embeddings[c])
    /\ version' = [index |-> Index(embeddings[c]), mapping |-> product_mapping]
    /\ Return(c, "built", Index(embeddings[c]))
    /\ UNCHANGED << product_mapping, buildLocals, pre, searchVars, healthVars,
                    worldHist >>

\* After the catalog loop of the build of c: return when nothing was
\* embedded, else assign a new IndexFlatIP holding the embeddings to
\* faiss_index.
BuildFinish(c) ==
    /\ bpc[c] = "loop"
    /\ bi[c] > Len(catalog[c])
    /\ IF Len(embeddings[c]) = 0
       THEN /\ Return(c, "empty", faiss_index)
            /\ UNCHANGED << faiss_index, version >>
       ELSE /\ faiss_index' = Index(embeddings[c])
            /\ version' = [index |-> Index(embeddings[c]),
                           mapping |-> product_mapping]
            /\ Return(c, "built", Index(embeddings[c]))
    /\ UNCHANGED << product_mapping, buildLocals, pre, searchVars, healthVars,
                    worldHist >>

\* The caller c of a build returns: its frame is gone, the response is on
\* its way to the client, and the event loop is free again.
BuildExit(c) ==
    /\ bpc[c] = "returned"
    /\ bpc' = [bpc EXCEPT ![c] = "idle"]
    /\ catalog' = [catalog EXCEPT ![c] = << >>]
    /\ bi' = [bi EXCEPT ![c] = 0]
    /\ embeddings' = [embeddings EXCEPT ![c] = << >>]
    /\ pre' = [pre EXCEPT ![c] = NoSnapshot]
    /\ outcome' = [outcome EXCEPT ![c] = "none"]
    /\ rebuildResp' = [rebuildResp EXCEPT ![c] = NoResp]
    /\ prev' = [prev EXCEPT ![c] = NoWorld]
    /\ UNCHANGED << faiss_index, product_mapping, phase, version, searchVars,
                    healthVars, last >>

\* ------------------------------------------------------------------- search

\* SearchEnter without the not-ready test: the search always goes on.
SearchEnterNoCheck(k) ==
    /\ phase = "serving"
    /\ LoopFree
    /\ spc = "idle"
    /\ sk' = k
    /\ sentry' = [index |-> faiss_index, mapping |-> product_mapping,
                  version |-> version]
    /\ spc' = "awaiting"
    /\ sresp' = NoResp
    /\ UNCHANGED << faiss_index, product_mapping, phase, bpc, buildLocals,
                    healthVars, worldHist,
                    pre, outcome, rebuildResp, version, sq >>

\* search_product up to its await: raise 503 when faiss_index is None,
\* else suspend in image.read().
SearchEnter(k) ==
    /\ phase = "serving"
    /\ LoopFree
    /\ spc = "idle"
    /\ sk' = k
    /\ sentry' = [index |-> faiss_index, mapping |-> product_mapping,
                  version |-> version]
    /\ IF ~faiss_index.set
       THEN /\ spc' = "done"
            /\ sresp' = [status |-> 503]
       ELSE /\ spc' = "awaiting"
            /\ sresp' = NoResp
    /\ UNCHANGED << faiss_index, product_mapping, phase, bpc, buildLocals,
                    healthVars, worldHist,
                    pre, outcome, rebuildResp, version, sq >>

\* search_product from the return of image.read(), which yields the upload
\* q, to its response: 500 when q does not decode, else the matches
\* computed from the globals faiss_index and product_mapping as they are now.
SearchResume(q) ==
    /\ phase = "serving"
    /\ LoopFree
    /\ spc = "awaiting"
    /\ spc' = "done"
    /\ sq' = q
    /\ sresp' = IF ~q.ok
                THEN [status |-> 500]
                ELSE [status |-> 200, success |-> TRUE,
                      matches |-> Matches(faiss_index, product_mapping,
                                          q.raw, sk)]
    /\ UNCHANGED << faiss_index, product_mapping, phase, bpc, buildLocals,
                    healthVars, worldHist,
                    pre, outcome, rebuildResp, version, sk, sentry >>

\* search_product returns or raises: its frame is gone, the response is on
\* its way to the client, and the event loop is free again.
SearchExit ==
    /\ spc = "done"
    /\ spc' = "idle"
    /\ sk' = 0
    /\ sq' = NoQuery
    /\ sentry' = NoEntry
    /\ sresp' = NoResp
    /\ UNCHANGED << faiss_index, product_mapping, phase, bpc, buildLocals,
                    healthVars, worldHist,
                    pre, outcome, rebuildResp, version >>

\* ------------------------------------------------------------------- health

\* The distinct product ids of a metadata list.
ProductIds(mapping) == {mapping[i].product_id : i \in DOMAIN mapping}

\* The body health_check returns: the vector count of faiss_index (0 when it
\* is None) and the number of distinct product ids in product_mapping (0
\* when it is empty).
HealthResponse(index, mapping) ==
    [status |-> 200,
     index_size |-> IF index.set THEN Ntotal(index) ELSE 0,
     products |-> IF mapping # << >>
                  THEN Cardinality(ProductIds(mapping))
                  ELSE 0]

\* health_check: it never awaits, so it runs from entry to its response in
\* one step.
HealthCheck ==
    /\ phase = "serving"
    /\ LoopFree
    /\ hresp' = HealthResponse(faiss_index, product_mapping)
    /\ UNCHANGED << faiss_index, product_mapping, phase, bpc, buildLocals, pre,
                    outcome, rebuildResp, version, searchVars, worldHist >>

\* health_check returns: the response is on its way to the client, and the
\* event loop is free again.
HealthExit ==
    /\ hresp # NoResp
    /\ hresp' = NoResp
    /\ UNCHANGED << faiss_index, product_mapping, phase, bpc, buildLocals, pre,
                    outcome, rebuildResp, version, searchVars, worldHist >>

Next ==
    \/ \E w \in Worlds : Startup(w)
    \/ \E r \in Rebuilders : RequestRebuild(r)
    \/ \E r \in Rebuilders, w \in Worlds : RebuildStart(r, w)
    \/ \E c \in Callers : BuildProduct(c)
    \/ \E c \in Callers : BuildFinish(c)
    \/ \E c \in Callers : BuildExit(c)
    \/ \E k \in 1 .. MaxK : SearchEnter(k)
    \/ \E q \in Queries : SearchResume(q)
    \/ SearchExit
    \/ HealthCheck
    \/ HealthExit

Spec == Init /\ [][Next]_vars

\* The steps with one client of /rebuild: builds hold the event loop one
\* after the other, so one client calling again and again gives every
\* succession of builds.
NextHist ==
    \/ \E w \in Worlds : Startup(w)
    \/ RequestRebuild("r1")
    \/ \E w \in Worlds : RebuildStart("r1", w)
    \/ \E c \in Callers : BuildProduct(c)
    \/ \E c \in Callers : BuildFinish(c)
    \/ \E c \in Callers : BuildExit(c)
    \/ \E k \in 1 .. MaxK : SearchEnter(k)
    \/ \E q \in Queries : SearchResume(q)
    \/ SearchExit
    \/ HealthCheck
    \/ HealthExit

\* The same program with the history of what the builds read.
SpecHist == InitHist /\ [][NextHist]_vars

\* =================================================================== claims

\* The searches whose upload decodes.
GoodQueries == {q \in Queries : q.ok}

\* A search that ran to its result list is about to return it.
SearchSucceeded == spc = "done" /\ sresp.status = 200

\* ----------------------------------------------------------------------- C1

\* C1: when a rebuild entered with a working index I and its metadata M
\* extracts zero embeddings, then as it returns the index is still I and the
\* metadata still M, and every search gives the matches it gave before.
C1_EmptyRebuildKeepsIndexAndMetadata ==
    \A r \in Rebuilders :
        (/\ bpc[r] = "returned"
         /\ outcome[r] = "empty"
         /\ pre[r].index.set
         /\ pre[r] = version)
        => /\ faiss_index = pre[r].index
           /\ product_mapping = pre[r].mapping
           /\ \A q \in GoodQueries, k \in 1 .. MaxK :
                  Matches(faiss_index, product_mapping, q.raw, k)
                      = Matches(pre[r].index, pre[r].mapping, q.raw, k)

\* ----------------------------------------------------------------------- C2

\* C2: whenever the service is serving and no build is inside its catalog
\* loop, the index holds as many vectors as product_mapping has entries
\* (none of either when no index is active).
C2_IndexAndMetadataSameLength ==
    (phase = "serving" /\ \A c \in Callers : bpc[c] # "loop")
    => Ntotal(faiss_index) = Len(product_mapping)

\* ----------------------------------------------------------------------- C3

\* Every match of the finished search pairs a vector of version v with the
\* metadata v holds at the same position.
MatchesFromVersion(v) ==
    \A n \in 1 .. Len(sresp.matches) :
        \E i \in 1 .. Len(v.mapping) :
            /\ i <= Ntotal(v.index)
            /\ sresp.matches[n]
                   = Match(InnerProduct(Normalize(sq.raw), v.index.rows[i].emb),
                           v.mapping[i])

\* C3: a search during whose await a rebuild changed the index state returns
\* matches that all come from one index version: the one in force when the
\* search was entered, or the one in force when it completes.
C3_SearchSeesOneVersion ==
    (/\ SearchSucceeded
     /\ << faiss_index, product_mapping >> # << sentry.index, sentry.mapping >>)
    => \/ MatchesFromVersion(sentry.version)
       \/ MatchesFromVersion(version)

\* ----------------------------------------------------------------------- C4

\* C4: when a rebuild installs a new index while a search is suspended in its
\* await, the search still returns the matches computed from the index and
\* metadata that were active when it was entered.
C4_SearchUsesEntrySnapshot ==
    (SearchSucceeded /\ version # sentry.version)
    => sresp.matches = Matches(sentry.index, sentry.mapping, sq.raw, sk)

\* ----------------------------------------------------------------------- C5

\* C5: a rebuild that found no catalog file, or extracted zero embeddings,
\* does not answer its caller with success.
C5_FailedRebuildReportsFailure ==
    \A r \in Rebuilders :
        (bpc[r] = "returned" /\ outcome[r] \in {"catalog_missing", "empty"})
        => rebuildResp[r].status # 200

\* ----------------------------------------------------------------------- C6

\* C6: a search entered while no build has ever succeeded does not go on to
\* its await, and ends with the 503 not-ready error.
C6_UninitializedSearchIsNotReady ==
    (spc \in {"awaiting", "done"} /\ ~sentry.version.index.set)
    => (spc = "done" /\ sresp.status = 503)

\* A search answered 503 after a failed build left metadata behind.
C6_Witness ==
    /\ spc = "done"
    /\ ~sentry.version.index.set
    /\ sresp.status = 503
    /\ Len(product_mapping) > 0

\* ----------------------------------------------------------------------- C7

\* C7: a build that ends on a missing or unparseable catalog file leaves
\* faiss_index and product_mapping as it found them.
C7_ConfigErrorTouchesNothing ==
    \A c \in Callers :
        (bpc[c] = "returned" /\ outcome[c] \in {"catalog_missing", "json_error"})
        => /\ faiss_index = pre[c].index
           /\ product_mapping = pre[c].mapping

\* A rebuild of a working index ended on an unparseable catalog file.
C7_Witness ==
    \E r \in Rebuilders :
        /\ bpc[r] = "returned"
        /\ outcome[r] = "json_error"
        /\ pre[r].index.set
        /\ Len(product_mapping) > 0

\* ----------------------------------------------------------------------- C8

\* C8: the matches of a search hold no product twice and are at most k (so
\* at most as many as there are products), and a search of an active index
\* with a decodable upload ends without error.
C8_MatchesDistinctAndAtMostK ==
    /\ SearchSucceeded
       => /\ Len(sresp.matches) <= sk
          /\ Len(sresp.matches) <= Cardinality(ProductIds(product_mapping))
          /\ \A m, n \in 1 .. Len(sresp.matches) :
                 m # n => sresp.matches[m].product_id
                              # sresp.matches[n].product_id
    /\ (spc = "done" /\ sentry.index.set /\ sq.ok) => sresp.status = 200

\* A search with k above the number of products, whose nearest vectors
\* include two of one product, returned one match.
C8_Witness ==
    /\ SearchSucceeded
    /\ sk > Cardinality(ProductIds(product_mapping))
    /\ Ntotal(faiss_index) >= sk
    /\ Ntotal(faiss_index) = Len(product_mapping)
    /\ Len(sresp.matches) = 1

\* ----------------------------------------------------------------------- C9

\* C9: while a rebuild of a working index is inside its catalog loop, a
\* search can still be taken up, and a suspended one can still complete.
C9_SearchNotBlockedByConstruction ==
    ((\E r \in Rebuilders : bpc[r] = "loop") /\ faiss_index.set)
    => /\ spc = "idle" => ENABLED (\E k \in 1 .. MaxK : SearchEnter(k))
       /\ spc = "awaiting" => ENABLED (\E q \in Queries : SearchResume(q))

\* ---------------------------------------------------------------------- C10

RECURSIVE CatalogRows(_)
\* The embeddings a whole pass over catalog c extracts, in catalog order.
CatalogRows(c) ==
    IF c = << >> THEN << >>
    ELSE CatalogRows(SubSeq(c, 1, Len(c) - 1))
         \o (IF c[Len(c)].dir THEN NewRows(c[Len(c)]) ELSE << >>)

RECURSIVE CatalogMapping(_)
\* The metadata a whole pass over catalog c appends, in catalog order.
CatalogMapping(c) ==
    IF c = << >> THEN << >>
    ELSE CatalogMapping(SubSeq(c, 1, Len(c) - 1))
         \o (IF c[Len(c)].dir THEN NewMapping(c[Len(c)]) ELSE << >>)

\* C10: at most one build is in progress at a time, and when a build that
\* assigned the index returns, the index and the metadata are exactly what
\* its own pass over its own catalog produced.
C10_RebuildsSerialized ==
    /\ Cardinality(Building) <= 1
    /\ \A c \in Callers :
           (bpc[c] = "returned" /\ outcome[c] = "built")
           => /\ faiss_index = Index(CatalogRows(catalog[c]))
              /\ product_mapping = CatalogMapping(catalog[c])

\* A rebuild of a working index returns with its new index while a second
\* rebuild request is waiting.
C10_Witness ==
    \E r, t \in Rebuilders :
        /\ r # t
        /\ bpc[r] = "returned"
        /\ outcome[r] = "built"
        /\ pre[r].index.set
        /\ pre[r].index # faiss_index
        /\ bpc[t] = "queued"

\* ---------------------------------------------------------------------- C11

\* The products that have a vector in an index.
IndexProducts(index) == {index.rows[i].src[1] : i \in 1 .. Ntotal(index)}

\* C11: the response of health_check carries the vector count of the active
\* index and the number of distinct products that have a vector in that
\* index (0 and 0 when no index is active), and faiss_index and
\* product_mapping are as they were before the call.
C11_StatusReportsActiveIndex ==
    [][(hresp = NoResp /\ hresp' # NoResp)
       => /\ hresp'.index_size = Ntotal(faiss_index)
          /\ hresp'.products = Cardinality(IndexProducts(faiss_index))
          /\ faiss_index' = faiss_index
          /\ product_mapping' = product_mapping]_vars

\* ---------------------------------------------------------------------- C12

\* C12: an active index holds at least one vector, and a build whose pass
\* extracted nothing leaves faiss_index as it found it.
C12_NoEmptyIndexActive ==
    /\ faiss_index.set => Ntotal(faiss_index) >= 1
    /\ \A c \in Callers :
           (bpc[c] = "returned" /\ outcome[c] = "empty")
           => faiss_index = pre[c].index

\* A build that extracted nothing returns while no index is active.
C12_Witness ==
    \E c \in Callers :
        /\ bpc[c] = "returned"
        /\ outcome[c] = "empty"
        /\ Len(catalog[c]) > 0
        /\ ~faiss_index.set

\* ---------------------------------------------------------------------- C13

RECURSIVE FileSources(_, _)
\* <<pid, file name>> for every file of a listing that has an image extension
\* and loads, in listing order.
FileSources(pid, files) ==
    IF files = << >> THEN << >>
    ELSE (IF Head(files).ext \in ImageExts /\ Head(files).ok
          THEN << << pid, Head(files).name >> >>
          ELSE << >>)
         \o FileSources(pid, Tail(files))

RECURSIVE ExpectedSources(_)
\* The reference images a pass over catalog c is to index: every loadable
\* image of every product whose directory exists, in catalog order.
ExpectedSources(c) ==
    IF c = << >> THEN << >>
    ELSE (IF Head(c).dir
          THEN FileSources(ProductId(Head(c)), Head(c).files)
          ELSE << >>)
         \o ExpectedSources(Tail(c))

\* C13: a build over a catalog whose entries all have a name is not aborted
\* by a missing directory or a failing image: it ends "built" or "empty",
\* product_mapping lists exactly the loadable images of the products whose
\* directory exists, in catalog order, and so does a newly built index.
C13_PerItemFaultIsolation ==
    \A c \in Callers :
        (/\ bpc[c] = "returned"
         /\ outcome[c] \notin {"catalog_missing", "json_error"}
         /\ \A i \in DOMAIN catalog[c] : catalog[c][i].has_name)
        => /\ outcome[c] \in {"built", "empty"}
           /\ [i \in DOMAIN product_mapping |->
                  << product_mapping[i].product_id,
                     product_mapping[i].ref_file >>]
                  = ExpectedSources(catalog[c])
           /\ outcome[c] = "built"
              => [i \in 1 .. Ntotal(faiss_index) |-> faiss_index.rows[i].src]
                     = ExpectedSources(catalog[c])
           /\ outcome[c] = "empty" => ExpectedSources(catalog[c]) = << >>

\* A build indexed the images of a product listed after one with a failing
\* image, and the loadable image of that one too.
C13_Witness ==
    \E c \in Callers :
        /\ bpc[c] = "returned"
        /\ outcome[c] = "built"
        /\ Len(catalog[c]) = 2
        /\ \E n \in DOMAIN catalog[c][1].files : ~catalog[c][1].files[n].ok
        /\ Ntotal(faiss_index) = 3

\* ---------------------------------------------------------------------- C14

\* The score of the finished search's query against row i of the index.
Score(i) == InnerProduct(Normalize(sq.raw), faiss_index.rows[i].emb)

C15_MetadataDescribesVector ==
    /\ (/\ phase = "serving"
        /\ faiss_index.set
        /\ \A c \in Callers : bpc[c] # "loop")
       => \A i \in DOMAIN product_mapping :
              /\ i <= Ntotal(faiss_index)
              /\ faiss_index.rows[i].src
                     = << product_mapping[i].product_id,
                          product_mapping[i].ref_file >>
    /\ SearchSucceeded
       => \A m \in DOMAIN sresp.matches :
              \E i \in 1 .. Ntotal(faiss_index) :
                  /\ faiss_index.rows[i].src
                         = << sresp.matches[m].product_id,
                              sresp.matches[m].ref_file >>
                  /\ Score(i) = sresp.matches[m].similarity

\* ---------------------------------------------------------------------- C16

\* C16: a search of an index whose metadata is the one built with it returns
\* exactly min(k, P) matches, P being the number of distinct products that
\* have a vector in the index.
C16_ExactlyMinKProducts ==
    (/\ SearchSucceeded
     /\ faiss_index = version.index
     /\ product_mapping = version.mapping)
    => Len(sresp.matches) = Min(sk, Cardinality(IndexProducts(faiss_index)))

\* ---------------------------------------------------------------------- C17

\* C17: once a build has assigned the index, an index stays active, and a
\* search entered from then on never ends with the 503 not-ready error.
C17_ReadyIsPermanent ==
    /\ version.index.set => faiss_index.set
    /\ (spc \in {"awaiting", "done"} /\ sentry.version.index.set)
       => sresp.status # 503

\* A search is answered with matches after a build succeeded and a later one
\* failed.
C17_Witness ==
    /\ SearchSucceeded
    /\ sentry.version.index.set
    /\ product_mapping # version.mapping

\* ---------------------------------------------------------------------- C18

\* C18: a build that finds at CATALOG_PATH what the build before it found
\* leaves faiss_index and product_mapping as that build left them, and every
\* search gives the matches it gave before.
C18_RebuildIdempotent ==
    \A c \in Callers :
        (bpc[c] = "returned" /\ last # Untracked /\ prev[c] = last)
        => /\ faiss_index = pre[c].index
           /\ product_mapping = pre[c].mapping
           /\ \A q \in GoodQueries, k \in 1 .. MaxK :
                  Matches(faiss_index, product_mapping, q.raw, k)
                      = Matches(pre[c].index, pre[c].mapping, q.raw, k)

\* A rebuild over the catalog the build before it read returns with a newly
\* built index of three vectors.
C18_Witness ==
    \E r \in Rebuilders :
        /\ bpc[r] = "returned"
        /\ last # Untracked
        /\ prev[r] = last
        /\ outcome[r] = "built"
        /\ Ntotal(faiss_index) = 3

====
